---- MODULE Spec2Model ----
(***************************************************************************)
(* State-machine model of src/image_cropper.py (class ImageCropper): the   *)
(* selection rectangle, the drag session, the viewport transform, image    *)
(* loading / folder navigation and the crop export with its per-source     *)
(* counter.  Every action is one Tk callback run to completion (the        *)
(* program is single-threaded and event-driven); the callbacks may arrive  *)
(* in any order, the only guards being the ones the code has.              *)
(*                                                                         *)
(* Numbers: pointer coordinates are the integers Tk delivers (event.x,     *)
(* event.y).  The scale is the float cw/img_w or ch/img_h; it is kept here *)
(* as the exact fraction <<num, den>>, and int() is truncation toward      *)
(* zero of the exact quotient; on the image sizes, canvas sizes and        *)
(* pointer positions used here the float computation yields the same       *)
(* integers.                                                               *)
(***************************************************************************)
EXTENDS Integers, Sequences, FiniteSets, TLC

(***************************************************************************)
(* Program constants.                                                      *)
(***************************************************************************)
HIT_RADIUS == 10

\* Python's None for the tuple-valued fields (selection, snapshot, image).
None == <<>>
\* Python's None for the string-valued field _drag_mode.
NoneStr == "None"

(***************************************************************************)
(* Bounds of the model.                                                    *)
(***************************************************************************)
\* Repeated move and resize gestures could push the rectangle away without
\* limit: a pointer-move is taken only when it leaves every coordinate of
\* the selection within this many pixels of the span of the pointer
\* positions in use (Drift for the whole program and for the exports,
\* DragDrift where the rectangle is to leave the canvas: the drag gestures
\* alone and the crop rectangle).
Drift == 0
DragDrift == 11
\* No crop counter is taken beyond MaxCount (ExportMaxCount in the
\* specification of the exports and their numbering).
MaxCount == 1
ExportMaxCount == 2

\* A path is <<folder, stem, extension>>, the stem a sequence of string
\* pieces (so that a formatted name can be compared with a file's name).
\* The files of the model: folder /d holds a sound image and a palette image
\* whose data is truncated (Image.open reads its header, convert('RGBA')
\* raises); folder /e holds a sound image, a file that is no image
\* (Image.open raises) and a text file.  One more path names no file.
PathA == <<"/d", <<"a">>, ".jpg">>
PathB == <<"/e", <<"b">>, ".png">>
PathC == <<"/d", <<"c">>, ".gif">>
PathD == <<"/e", <<"d">>, ".bmp">>
PathNotes == <<"/e", <<"notes">>, ".txt">>
PathGone == <<"/e", <<"gone">>, ".jpg">>
GoodPaths == {PathA, PathB}
TruncatedPaths == {PathC}
GarbagePaths == {PathD}
MissingPaths == {PathGone}
OpenPaths == {PathA, PathB, PathC, PathD, PathNotes, PathGone}
SUPPORTED_EXTS == {".jpg", ".jpeg", ".png", ".bmp", ".gif", ".tiff", ".webp"}
\* sorted(os.listdir(folder)) as full paths.
ListDir(folder) ==
    IF folder = "/d" THEN <<PathA, PathC>> ELSE <<PathB, PathD, PathNotes>>
\* Paths that can become image_path, hence keys of crop_counter.
SourcePaths == GoodPaths
\* An opened image is <<width, height, sound>>: sound is FALSE for an image
\* whose pixel data cannot be loaded (load() raises), as Image.open returns
\* for the truncated file.
TruncatedImage == <<8, 8, FALSE>>
Opened(size) == <<size[1], size[2], TRUE>>
\* The sizes of the sound images when the program starts.
InitialDisk == [p \in GoodPaths |-> IF p = PathA THEN <<16, 8>>
                                                 ELSE <<40, 40>>]
\* The canvas sizes a <Configure> event may report.
CanvasSizes == {<<32, 32>>, <<40, 32>>}

\* os.path.join(folder, 'cropped') and a custom output folder.
JoinCropped(folder) == IF folder = "/d" THEN "/d/cropped" ELSE "/e/cropped"
CustomFolder == "/out"
\* The settings a crop may be saved under (self.config, which the settings
\* dialog may have changed before any event).
FolderModes == {"subfolder", "same", "custom"}
CustomFolders == {"", CustomFolder}
Patterns == {"{base}_cr{n}", "{bogus}", "{base}"}
Configs == [folder_mode : FolderModes, custom_folder : CustomFolders,
            pattern : Patterns, overwrite : BOOLEAN]
\* What the file system does during a save: all calls succeed, os.makedirs
\* raises, or the image's save raises.
SaveEnvs == {"ok", "mkdir_fails", "write_fails"}

\* The settings of a fresh installation, and the same with overwrite on.
DefaultConfig == [folder_mode |-> "subfolder", custom_folder |-> "",
                  pattern |-> "{base}_cr{n}", overwrite |-> FALSE]
OverwriteConfig == [DefaultConfig EXCEPT !.overwrite = TRUE]

\* Pointer positions (event.x, event.y) the mouse events are drawn from:
\* two opposite corners and the centre of a 22 x 22 square.
PointerPoints == {<<5, 5>>, <<16, 16>>, <<27, 27>>}
\* The same with the midpoint of the square's right edge, for the
\* specification of the drag gestures alone.
DragPoints == PointerPoints \cup {<<27, 16>>}
\* The two corners alone, for the specification of the exports.
CornerPoints == {<<5, 5>>, <<27, 27>>}

VARIABLES
    image_path,          \* self.image_path: None or a path
    pil_image,           \* self.pil_image: None or <<width, height, sound>>
    folder_images,       \* self.folder_images: sequence of paths
    folder_index,        \* self.folder_index
    scale,               \* self.scale as the exact fraction <<num, den>>
    offset_x, offset_y,  \* self.offset_x, self.offset_y
    sel,                 \* (sel_x0, sel_y0, sel_x1, sel_y1), None when unset
    drag_mode,           \* self._drag_mode
    drag_ox, drag_oy,    \* self._drag_ox, self._drag_oy
    drag_sel_snapshot,   \* self._drag_sel_snapshot
    crop_counter,        \* self.crop_counter (a missing key reads as 0)
    canvas,              \* the canvas widget's size <<winfo_width, winfo_height>>
    disk,                \* the image files: path -> size of the stored image
    out_files            \* the crop files written so far (set of output paths)

vars == <<image_path, pil_image, folder_images, folder_index, scale, offset_x,
          offset_y, sel, drag_mode, drag_ox, drag_oy, drag_sel_snapshot,
          crop_counter, canvas, disk, out_files>>

docVars == <<image_path, pil_image, folder_images, folder_index, scale,
             offset_x, offset_y, crop_counter, canvas, disk,
             out_files>>

dragVars == <<drag_mode, drag_ox, drag_oy, drag_sel_snapshot>>

(***************************************************************************)
(* Selection helpers.                                                      *)
(***************************************************************************)
Min2(a, b) == IF a <= b THEN a ELSE b
Max2(a, b) == IF a >= b THEN a ELSE b
Abs(a) == IF a >= 0 THEN a ELSE -a

_has_selection == sel # None

\* (min x, min y, max x, max y) of a rectangle given by two corners.
_norm_sel(s) == <<Min2(s[1], s[3]), Min2(s[2], s[4]),
                  Max2(s[1], s[3]), Max2(s[2], s[4])>>

\* The handle names in the iteration order of the dict _handles() builds.
HandleOrder == <<"nw", "n", "ne", "w", "e", "sw", "s", "se">>
HandleNames == {HandleOrder[i] : i \in 1..Len(HandleOrder)}

\* The handle points of rectangle s, in dict order, each as
\* <<name, 2*hx, 2*hy>>: the midpoints (lx+rx)/2, (ty+by)/2 are true
\* divisions and may be half-integers, so every coordinate is doubled.
_handles(s) ==
    LET n  == _norm_sel(s)
        lx == n[1]  ty == n[2]  rx == n[3]  by == n[4]
        mx2 == lx + rx
        my2 == ty + by
    IN << <<"nw", 2*lx, 2*ty>>, <<"n", mx2, 2*ty>>, <<"ne", 2*rx, 2*ty>>,
          <<"w",  2*lx, my2>>,                      <<"e",  2*rx, my2>>,
          <<"sw", 2*lx, 2*by>>, <<"s", mx2, 2*by>>, <<"se", 2*rx, 2*by>> >>

\* abs(x - hx) <= HIT_RADIUS and abs(y - hy) <= HIT_RADIUS, on doubled values.
HandleHit(h, x, y) ==
    /\ Abs(2*x - h[2]) <= 2*HIT_RADIUS
    /\ Abs(2*y - h[3]) <= 2*HIT_RADIUS

\* A hit test that tries the corner handles before the edge handles.
CornerFirstHit(s, x, y) ==
    IF s = None THEN NoneStr
    ELSE LET hs   == _handles(s)
             hits == {i \in 1..Len(hs) : HandleHit(hs[i], x, y)}
             corners == {i \in hits : hs[i][1] \in {"nw", "ne", "sw", "se"}}
             pick(S) == CHOOSE i \in S : \A j \in S : i <= j
         IN IF hits = {} THEN NoneStr
            ELSE IF corners # {} THEN hs[pick(corners)][1]
            ELSE hs[pick(hits)][1]

\* The first handle of s, in iteration order, whose box contains (x, y).
_hit_handle(s, x, y) ==
    IF s = None THEN NoneStr
    ELSE LET hs   == _handles(s)
             hits == {i \in 1..Len(hs) : HandleHit(hs[i], x, y)}
         IN IF hits = {} THEN NoneStr
            ELSE hs[CHOOSE i \in hits : \A j \in hits : i <= j][1]

_inside_selection(s, x, y) ==
    IF s = None THEN FALSE
    ELSE LET n == _norm_sel(s)
         IN n[1] <= x /\ x <= n[3] /\ n[2] <= y /\ y <= n[4]

(***************************************************************************)
(* _clear_selection (Esc, and called by load, pointer-down and overwrite). *)
(* The two assignments it makes; the snapshot and the origin are left.     *)
(***************************************************************************)
\* A clear that ends the session only and leaves the rectangle.
KeptSel == sel

\* A clear that resets the rectangle only and leaves the session as it is.
KeptMode == drag_mode

ClearedSel == None

ClearedMode == NoneStr

_clear_selection ==
    /\ sel' = ClearedSel
    /\ drag_mode' = ClearedMode
    /\ UNCHANGED <<drag_ox, drag_oy, drag_sel_snapshot>>
    /\ UNCHANGED docVars

(***************************************************************************)
(* Mouse events.                                                           *)
(***************************************************************************)
\* Pointer-down that tests the inside of the rectangle before its handles.
MoveBeforeHandle(s, snap, x, y) ==
    IF _inside_selection(s, x, y)
      THEN <<"move", s, s>>
    ELSE IF _hit_handle(s, x, y) # NoneStr
      THEN <<_hit_handle(s, x, y), _norm_sel(s), s>>
    ELSE <<"new", snap, <<x, y, x, y>> >>

\* What pointer-down at (x, y) makes of the session and the selection:
\* <<mode, snapshot, selection>>.
MouseDownResult(s, snap, x, y) ==
    LET handle == _hit_handle(s, x, y)
    IN IF handle # NoneStr
         THEN <<handle, _norm_sel(s), s>>
       ELSE IF _inside_selection(s, x, y)
         THEN <<"move", s, s>>
       ELSE <<"new", snap, <<x, y, x, y>> >>

_on_mouse_down(x, y) ==
    IF pil_image = None
    THEN UNCHANGED vars
    ELSE LET r == MouseDownResult(sel, drag_sel_snapshot, x, y)
         IN /\ drag_mode' = r[1]
            /\ drag_sel_snapshot' = r[2]
            /\ sel' = r[3]
            \* the 'new' branch leaves the origin of the previous gesture
            /\ drag_ox' = IF r[1] = "new" THEN drag_ox ELSE x
            /\ drag_oy' = IF r[1] = "new" THEN drag_oy ELSE y
            /\ UNCHANGED docVars

HasW(h) == h \in {"nw", "w", "sw"}
HasE(h) == h \in {"ne", "e", "se"}
HasN(h) == h \in {"nw", "n", "ne"}
HasS(h) == h \in {"sw", "s", "se"}

\* A move that translates the first corner only.
StretchingMove(mode, s, snap, ox, oy, x, y) ==
    LET dx == x - ox
        dy == y - oy
    IN IF mode = "new"
         THEN <<s[1], s[2], x, y>>
       ELSE IF mode = "move"
         THEN <<snap[1] + dx, snap[2] + dy, snap[3], snap[4]>>
       ELSE <<IF HasW(mode) THEN snap[1] + dx ELSE snap[1],
              IF HasN(mode) THEN snap[2] + dy ELSE snap[2],
              IF HasE(mode) THEN snap[3] + dx ELSE snap[3],
              IF HasS(mode) THEN snap[4] + dy ELSE snap[4]>>

\* A resize that stops an edge at the opposite edge instead of inverting.
ClampedResize(mode, s, snap, ox, oy, x, y) ==
    LET dx == x - ox
        dy == y - oy
    IN IF mode = "new"
         THEN <<s[1], s[2], x, y>>
       ELSE IF mode = "move"
         THEN <<snap[1] + dx, snap[2] + dy, snap[3] + dx, snap[4] + dy>>
       ELSE <<IF HasW(mode) THEN Min2(snap[1] + dx, snap[3]) ELSE snap[1],
              IF HasN(mode) THEN Min2(snap[2] + dy, snap[4]) ELSE snap[2],
              IF HasE(mode) THEN Max2(snap[3] + dx, snap[1]) ELSE snap[3],
              IF HasS(mode) THEN Max2(snap[4] + dy, snap[2]) ELSE snap[4]>>

\* A move or resize that adds the pointer's offset to the rectangle as it is,
\* not to the snapshot.
AccumulatingDrag(mode, s, snap, ox, oy, x, y) ==
    LET dx == x - ox
        dy == y - oy
    IN IF mode = "new"
         THEN <<s[1], s[2], x, y>>
       ELSE IF mode = "move"
         THEN <<s[1] + dx, s[2] + dy, s[3] + dx, s[4] + dy>>
       ELSE <<IF HasW(mode) THEN s[1] + dx ELSE s[1],
              IF HasN(mode) THEN s[2] + dy ELSE s[2],
              IF HasE(mode) THEN s[3] + dx ELSE s[3],
              IF HasS(mode) THEN s[4] + dy ELSE s[4]>>

\* The selection a pointer-move to (x, y) produces in an active session.
DragResult(mode, s, snap, ox, oy, x, y) ==
    LET dx == x - ox
        dy == y - oy
    IN IF mode = "new"
         THEN <<s[1], s[2], x, y>>
       ELSE IF mode = "move"
         THEN <<snap[1] + dx, snap[2] + dy, snap[3] + dx, snap[4] + dy>>
       ELSE <<IF HasW(mode) THEN snap[1] + dx ELSE snap[1],
              IF HasN(mode) THEN snap[2] + dy ELSE snap[2],
              IF HasE(mode) THEN snap[3] + dx ELSE snap[3],
              IF HasS(mode) THEN snap[4] + dy ELSE snap[4]>>

_on_mouse_drag(x, y) ==
    IF drag_mode = NoneStr
    THEN UNCHANGED vars
    ELSE /\ sel' = DragResult(drag_mode, sel, drag_sel_snapshot,
                              drag_ox, drag_oy, x, y)
         /\ UNCHANGED dragVars
         /\ UNCHANGED docVars

\* A pointer-up that ends the session without normalizing.
KeepCorners(s) == s

\* The selection after pointer-up.
MouseUpSel(s) == IF s # None THEN _norm_sel(s) ELSE s

_on_mouse_up ==
    /\ sel' = MouseUpSel(sel)
    /\ drag_mode' = NoneStr
    /\ drag_sel_snapshot' = None
    /\ UNCHANGED <<drag_ox, drag_oy>>
    /\ UNCHANGED docVars

(***************************************************************************)
(* Rendering: the viewport transform.                                      *)
(***************************************************************************)
\* int(): truncation toward zero of the fraction a / b, b > 0.
TruncDiv(a, b) == IF a >= 0 THEN a \div b ELSE -((-a) \div b)

\* A fit that shows an image smaller than the canvas at its own size.
CappedScale(cw, ch, img_w, img_h) ==
    IF cw >= img_w /\ ch >= img_h THEN <<1, 1>>
    ELSE IF cw * img_h <= ch * img_w THEN <<cw, img_w>> ELSE <<ch, img_h>>

\* min(cw / img_w, ch / img_h) as a fraction <<num, den>>.
FitScale(cw, ch, img_w, img_h) ==
    IF cw * img_h <= ch * img_w THEN <<cw, img_w>> ELSE <<ch, img_h>>

\* <<scale, offset_x, offset_y>> as _render_image sets them for an image of
\* size img on a canvas of size cv (a width or height of 0 reads as 800, 600).
RenderResult(img, cv) ==
    LET cw == IF cv[1] = 0 THEN 800 ELSE cv[1]
        ch == IF cv[2] = 0 THEN 600 ELSE cv[2]
        sc == FitScale(cw, ch, img[1], img[2])
        new_w == TruncDiv(img[1] * sc[1], sc[2])
        new_h == TruncDiv(img[2] * sc[1], sc[2])
    IN <<sc, (cw - new_w) \div 2, (ch - new_h) \div 2>>

\* _render_image with the image img and the canvas cv: a no-op without image.
_render_image(img, cv) ==
    IF img = None
    THEN UNCHANGED <<scale, offset_x, offset_y>>
    ELSE LET r == RenderResult(img, cv)
         IN /\ scale' = r[1]
            /\ offset_x' = r[2]
            /\ offset_y' = r[3]

\* A resize that also drops the selection, as a load does.
ResizeClearingSelection(cv) ==
    /\ canvas' = cv
    /\ _render_image(pil_image, cv)
    /\ sel' = None
    /\ drag_mode' = NoneStr
    /\ UNCHANGED <<image_path, pil_image, folder_images, folder_index,
                   crop_counter, disk, out_files>>
    /\ UNCHANGED <<drag_ox, drag_oy, drag_sel_snapshot>>

_on_canvas_resize(cv) ==
    /\ canvas' = cv
    /\ _render_image(pil_image, cv)
    /\ UNCHANGED <<image_path, pil_image, folder_images, folder_index,
                   crop_counter, disk, out_files>>
    /\ UNCHANGED <<sel, drag_mode, drag_ox, drag_oy, drag_sel_snapshot>>

(***************************************************************************)
(* File handling and navigation.                                           *)
(***************************************************************************)
\* list.index: the 0-based position of p in seq, -1 when absent.
IndexOf(seq, p) ==
    IF \E i \in 1..Len(seq) : seq[i] = p
    THEN (CHOOSE i \in 1..Len(seq) : seq[i] = p /\ \A j \in 1..(i-1) : seq[j] # p) - 1
    ELSE -1

\* The images of a folder, as _load_image lists them.
FolderImages(folder) ==
    SelectSeq(ListDir(folder), LAMBDA f : f[3] \in SUPPORTED_EXTS)

\* _load_image(path), entered with folder_index already set to fi.
_load_image(path, fi) ==
    IF \/ path \in MissingPaths
       \/ path[3] \notin SUPPORTED_EXTS
       \/ path \in GarbagePaths
    THEN \* not a file, unsupported extension, or Image.open raises
         /\ folder_index' = fi
         /\ UNCHANGED <<image_path, pil_image, folder_images, scale, offset_x,
                        offset_y, crop_counter, canvas, disk,
                        out_files>>
         /\ UNCHANGED <<sel, drag_mode, drag_ox, drag_oy, drag_sel_snapshot>>
    ELSE IF path \in TruncatedPaths
    THEN \* Image.open has been assigned to pil_image when convert raises
         /\ pil_image' = TruncatedImage
         /\ folder_index' = fi
         /\ UNCHANGED <<image_path, folder_images, scale, offset_x,
                        offset_y, crop_counter, canvas, disk,
                        out_files>>
         /\ UNCHANGED <<sel, drag_mode, drag_ox, drag_oy, drag_sel_snapshot>>
    ELSE LET images  == FolderImages(path[1])
             listing == IF IndexOf(images, path) >= 0
                        THEN images
                        ELSE Append(images, path)
         IN /\ pil_image' = Opened(disk[path])
            /\ image_path' = path
            /\ folder_images' = listing
            /\ folder_index' = IndexOf(listing, path)
            /\ sel' = ClearedSel
            /\ drag_mode' = ClearedMode
            /\ _render_image(Opened(disk[path]), canvas)
            /\ UNCHANGED <<drag_ox, drag_oy, drag_sel_snapshot>>
            /\ UNCHANGED <<crop_counter, canvas, disk, out_files>>

_open_file(path) == _load_image(path, folder_index)

\* _next_image (step = 1) and _prev_image (step = -1).
Navigate(step) ==
    IF folder_images = <<>>
    THEN UNCHANGED vars
    ELSE LET fi == (folder_index + step) % Len(folder_images)
         IN _load_image(folder_images[fi + 1], fi)

_next_image == Navigate(1)
_prev_image == Navigate(-1)

(***************************************************************************)
(* Saving a crop.                                                          *)
(***************************************************************************)
\* os.path.splitext(os.path.basename(path)): <<base, ext>>.
SplitExt(path) == <<path[2], path[3]>>

\* The extension the crop is written with.
OutputExt(ext) ==
    IF ext \in {".jpg", ".jpeg", ".png", ".bmp", ".tiff"} THEN ext ELSE ".png"

\* _canvas_to_image on one coordinate, as the numerator of a fraction over
\* scale's numerator: (c - offset) / scale = (c - offset) * den / num.
CanvasToImageNum(c, off, sc) == (c - off) * sc[2]

\* The box without the clamps to the image.
UnclampedBox(s, sc, offx, offy, img) ==
    LET n == _norm_sel(s)
    IN <<TruncDiv(CanvasToImageNum(n[1], offx, sc), sc[1]),
         TruncDiv(CanvasToImageNum(n[2], offy, sc), sc[1]),
         TruncDiv(CanvasToImageNum(n[3], offx, sc), sc[1]),
         TruncDiv(CanvasToImageNum(n[4], offy, sc), sc[1])>>

\* The box with the far edges rounded up.
CeilBox(s, sc, offx, offy, img) ==
    LET n == _norm_sel(s)
    IN <<Max2(0, TruncDiv(CanvasToImageNum(n[1], offx, sc), sc[1])),
         Max2(0, TruncDiv(CanvasToImageNum(n[2], offy, sc), sc[1])),
         Min2(img[1], -((-CanvasToImageNum(n[3], offx, sc)) \div sc[1])),
         Min2(img[2], -((-CanvasToImageNum(n[4], offy, sc)) \div sc[1]))>>

\* The box <<left, top, right, bottom>> _save_crop computes for selection s.
CropBox(s, sc, offx, offy, img) ==
    LET n   == _norm_sel(s)
        ix0 == CanvasToImageNum(n[1], offx, sc)
        iy0 == CanvasToImageNum(n[2], offy, sc)
        ix1 == CanvasToImageNum(n[3], offx, sc)
        iy1 == CanvasToImageNum(n[4], offy, sc)
    IN <<Max2(0, TruncDiv(Min2(ix0, ix1), sc[1])),
         Max2(0, TruncDiv(Min2(iy0, iy1), sc[1])),
         Min2(img[1], TruncDiv(Max2(ix0, ix1), sc[1])),
         Min2(img[2], TruncDiv(Max2(iy0, iy1), sc[1]))>>

\* right <= left or bottom <= top
TooSmall(box) == box[3] <= box[1] \/ box[4] <= box[2]

_resolve_out_folder(cfg, src_folder) ==
    IF cfg.folder_mode = "same" THEN src_folder
    ELSE IF cfg.folder_mode = "custom"
      THEN (IF cfg.custom_folder # "" THEN cfg.custom_folder ELSE src_folder)
    ELSE JoinCropped(src_folder)

\* pattern.format(base=base, n=count, ext=output_ext) as a sequence of
\* string pieces; None when format raises.
FormatPattern(pattern, base, count) ==
    IF pattern = "{base}_cr{n}" THEN base \o <<"_cr", ToString(count)>>
    ELSE IF pattern = "{base}" THEN base
    ELSE None

\* A stem without the fallback: None when the pattern cannot be formatted.
FailingStem(pattern, base, count) == FormatPattern(pattern, base, count)

\* The stem of the output name: the formatted pattern, or base_cr<count>.
OutStem(pattern, base, count) ==
    IF FormatPattern(pattern, base, count) # None
    THEN FormatPattern(pattern, base, count)
    ELSE base \o <<"_cr", ToString(count)>>

\* The crop number of an export that gets as far as numbering.
NextCount(counter, path) == counter[path] + 1

\* Numbering that does not store the number.
Unnumbered(counter, path) == counter

\* The counter after numbering.
Numbered(counter, path) == [counter EXCEPT ![path] = NextCount(counter, path)]

\* A run that numbers the crop before it creates the folder.
CountBeforeFolder(cfg, env) ==
    IF pil_image = None THEN "NoImage"
    ELSE IF sel = None THEN "NoSelection"
    ELSE IF TooSmall(CropBox(sel, scale, offset_x, offset_y, pil_image))
      THEN "TooSmall"
    ELSE IF ~pil_image[3] THEN "CropError"
    ELSE IF env \in {"mkdir_fails", "write_fails"} THEN "WriteError"
    ELSE IF cfg.overwrite THEN "Overwritten"
    ELSE "Saved"

\* How a run of _save_crop ends under settings cfg and file system env.
SaveOutcome(cfg, env) ==
    IF pil_image = None THEN "NoImage"
    ELSE IF sel = None THEN "NoSelection"
    ELSE IF TooSmall(CropBox(sel, scale, offset_x, offset_y, pil_image))
      THEN "TooSmall"
    \* pil_image.crop loads the pixel data and raises when it cannot
    ELSE IF ~pil_image[3] THEN "CropError"
    ELSE IF env = "mkdir_fails" THEN "FolderError"
    ELSE IF env = "write_fails" THEN "WriteError"
    ELSE IF cfg.overwrite THEN "Overwritten"
    ELSE "Saved"

_save_crop(cfg, env) ==
    LET outcome == SaveOutcome(cfg, env)
        box     == CropBox(sel, scale, offset_x, offset_y, pil_image)
        parts   == SplitExt(image_path)
        count   == NextCount(crop_counter, image_path)
        stem    == OutStem(cfg.pattern, parts[1], count)
        out_folder == _resolve_out_folder(cfg, image_path[1])
        out_path == <<out_folder, stem, OutputExt(parts[2])>>
        size    == <<box[3] - box[1], box[4] - box[2]>>
    IN
    \* os.makedirs(exist_ok=True) cannot fail on the folder of the image
    /\ env = "mkdir_fails" => image_path # None /\ out_folder # image_path[1]
    /\ IF outcome \in {"NoImage", "NoSelection", "TooSmall", "CropError",
                       "FolderError"}
       THEN \* a status message, an error box or an exception: nothing is set
            UNCHANGED vars
       ELSE IF outcome = "WriteError"
       THEN \* save raises after the counter has been stored
            /\ crop_counter' = Numbered(crop_counter, image_path)
            /\ UNCHANGED <<image_path, pil_image, folder_images, folder_index,
                           scale, offset_x, offset_y, canvas, disk, out_files>>
            /\ UNCHANGED <<sel, drag_mode, drag_ox, drag_oy, drag_sel_snapshot>>
       ELSE IF outcome = "Overwritten"
       THEN /\ crop_counter' = Numbered(crop_counter, image_path)
            /\ disk' = [disk EXCEPT ![image_path] = size]
            /\ pil_image' = Opened(size)
            /\ sel' = ClearedSel
            /\ drag_mode' = ClearedMode
            /\ _render_image(Opened(size), canvas)
            /\ UNCHANGED <<image_path, folder_images, folder_index, canvas,
                           out_files>>
            /\ UNCHANGED <<drag_ox, drag_oy, drag_sel_snapshot>>
       ELSE /\ crop_counter' = Numbered(crop_counter, image_path)
            /\ out_files' = out_files \cup {out_path}
            \* a name that resolves to the source file replaces its content
            /\ disk' = IF out_path = image_path
                       THEN [disk EXCEPT ![image_path] = size]
                       ELSE disk
            /\ UNCHANGED <<image_path, pil_image, folder_images, folder_index,
                           scale, offset_x, offset_y, canvas>>
            /\ UNCHANGED <<sel, drag_mode, drag_ox, drag_oy, drag_sel_snapshot>>

(***************************************************************************)
(* The state machine.                                                      *)
(***************************************************************************)
Init ==
    /\ image_path = None
    /\ pil_image = None
    /\ folder_images = <<>>
    /\ folder_index = 0
    /\ scale = <<1, 1>>
    /\ offset_x = 0
    /\ offset_y = 0
    /\ sel = None
    /\ drag_mode = NoneStr
    /\ drag_ox = 0
    /\ drag_oy = 0
    /\ drag_sel_snapshot = None
    /\ crop_counter = [p \in SourcePaths |-> 0]
    /\ canvas = <<32, 32>>
    /\ disk = InitialDisk
    /\ out_files = {}

\* Every coordinate of selection s lies within drift of the span of the
\* pointer positions Pts.
InWindow(s, Pts, drift) ==
    LET cs == {p[1] : p \in Pts} \cup {p[2] : p \in Pts}
        lo == CHOOSE c \in cs : \A d \in cs : c <= d
        hi == CHOOSE c \in cs : \A d \in cs : c >= d
    IN s = None \/ \A i \in 1..4 : lo - drift <= s[i] /\ s[i] <= hi + drift

\* Every overwrite makes the stored image a new, smaller one: a save under
\* the overwrite setting is taken only on an image as it was at the start,
\* so each file is overwritten at most once.
OverwriteOnce(cfg) ==
    cfg.overwrite => (image_path = None \/ disk[image_path] = InitialDisk[image_path])

\* A save that takes no crop counter beyond maxc.
SaveWithin(cfg, env, maxc) ==
    /\ _save_crop(cfg, env)
    /\ OverwriteOnce(cfg)
    /\ \A p \in SourcePaths : crop_counter'[p] <= maxc

\* One step of the program: any callback, in any order.  Files are opened
\* from folder /d and by the paths that fail; the canvas takes two sizes.
Next ==
    \/ \E p \in PointerPoints : _on_mouse_down(p[1], p[2])
    \/ \E p \in PointerPoints :
          _on_mouse_drag(p[1], p[2]) /\ InWindow(sel', PointerPoints, Drift)
    \/ _on_mouse_up
    \/ _clear_selection
    \/ \E cv \in CanvasSizes : _on_canvas_resize(cv)
    \/ \E path \in OpenPaths \ {PathB} : _open_file(path)
    \/ _next_image
    \/ _prev_image
    \/ \E cfg \in {DefaultConfig, OverwriteConfig}, env \in SaveEnvs :
          SaveWithin(cfg, env, MaxCount)

Spec == Init /\ [][Next]_vars

\* The drag gestures alone, on one image, over more pointer positions and
\* with room for the rectangle to leave the canvas.
NextDrag ==
    \/ \E p \in DragPoints : _on_mouse_down(p[1], p[2])
    \/ \E p \in DragPoints :
          _on_mouse_drag(p[1], p[2]) /\ InWindow(sel', DragPoints, DragDrift)
    \/ _on_mouse_up
    \/ _clear_selection
    \/ _open_file(PathA)

SpecDrag == Init /\ [][NextDrag]_vars

\* The exports and their numbering: both sound images, every behaviour of
\* the file system, several crops per image; the pointer takes the two
\* corner positions only.
NextExport ==
    \/ \E p \in CornerPoints : _on_mouse_down(p[1], p[2])
    \/ \E p \in CornerPoints :
          _on_mouse_drag(p[1], p[2]) /\ InWindow(sel', CornerPoints, Drift)
    \/ _on_mouse_up
    \/ \E path \in GoodPaths : _open_file(path)
    \/ \E cfg \in {DefaultConfig, OverwriteConfig}, env \in SaveEnvs :
          SaveWithin(cfg, env, ExportMaxCount)

SpecExport == Init /\ [][NextExport]_vars

\* The crop rectangle: both sound images (one shown enlarged, one reduced),
\* selections that may leave the canvas, saves that succeed.
NextCrop ==
    \/ \E p \in PointerPoints : _on_mouse_down(p[1], p[2])
    \/ \E p \in PointerPoints :
          _on_mouse_drag(p[1], p[2]) /\ InWindow(sel', PointerPoints, DragDrift)
    \/ _on_mouse_up
    \/ \E path \in GoodPaths : _open_file(path)
    \/ SaveWithin(DefaultConfig, "ok", MaxCount)

SpecCrop == Init /\ [][NextCrop]_vars

\* The settings that write a new file: every folder policy and pattern.
NamingConfigs == {c \in Configs : ~c.overwrite}

\* The view and the naming: both sound images on both canvas sizes, exports
\* that succeed under every folder policy and naming pattern; the pointer
\* takes the two corner positions only.
NextSettings ==
    \/ \E p \in CornerPoints : _on_mouse_down(p[1], p[2])
    \/ \E p \in CornerPoints :
          _on_mouse_drag(p[1], p[2]) /\ InWindow(sel', CornerPoints, Drift)
    \/ _on_mouse_up
    \/ \E cv \in CanvasSizes : _on_canvas_resize(cv)
    \/ \E path \in GoodPaths : _open_file(path)
    \/ \E cfg \in NamingConfigs : SaveWithin(cfg, "ok", MaxCount)

SpecSettings == Init /\ [][NextSettings]_vars

(***************************************************************************)
(* Properties of the drag session.                                         *)
(***************************************************************************)
Width(s) == s[3] - s[1]
Height(s) == s[4] - s[2]

\* C1: pointer-down with an image loaded.  On a handle of the selection the
\* mode becomes that handle's name and the snapshot the normalized
\* rectangle; otherwise, inside the selection (boundary included), the mode
\* becomes 'move' and the snapshot the rectangle as it is; otherwise the mode
\* becomes 'new' and the selection the point (x, y, x, y).  A handle hit is
\* taken before an inside hit.
C1_PointerDownDispatch ==
    [][\A p \in DragPoints :
          (pil_image # None /\ _on_mouse_down(p[1], p[2])) =>
             LET handle == _hit_handle(sel, p[1], p[2])
                 inside == _inside_selection(sel, p[1], p[2])
             IN /\ handle # NoneStr =>
                      /\ drag_mode' = handle
                      /\ drag_sel_snapshot' = _norm_sel(sel)
                      /\ sel' = sel
                /\ (handle = NoneStr /\ inside) =>
                      /\ drag_mode' = "move"
                      /\ drag_sel_snapshot' = sel
                      /\ sel' = sel
                /\ (handle = NoneStr /\ ~inside) =>
                      /\ drag_mode' = "new"
                      /\ sel' = <<p[1], p[2], p[1], p[2]>>
      ]_vars

\* A resize session opened by a pointer-down that lay on a handle and inside
\* the selection at once.
C1_HandleHitInsideSelection ==
    /\ pil_image # None
    /\ sel # None
    /\ drag_mode \in HandleNames
    /\ drag_mode = _hit_handle(sel, drag_ox, drag_oy)
    /\ _inside_selection(sel, drag_ox, drag_oy)
    /\ drag_sel_snapshot = _norm_sel(sel)

\* C2: whenever no drag session is active and a selection exists, the
\* selection is normalized: x0 <= x1 and y0 <= y1.
C2_IdleSelectionNormalized ==
    (drag_mode = NoneStr /\ sel # None) => (sel[1] <= sel[3] /\ sel[2] <= sel[4])

\* The rectangle left by dragging the east handle of (16,16)-(27,27) from
\* x = 27 to x = 5, past the west edge, and releasing.
C2_ReleasedAfterInversion ==
    /\ drag_mode = NoneStr
    /\ drag_sel_snapshot = None
    /\ sel = <<5, 16, 16, 27>>
    /\ drag_ox = 27

\* C3: whenever the selection is absent no drag session is active, and a
\* pointer-move that arrives while the selection is absent leaves it absent.
C3_AbsentSelectionHasNoSession ==
    /\ [](sel = None => drag_mode = NoneStr)
    /\ [][\A p \in PointerPoints :
             (sel = None /\ _on_mouse_drag(p[1], p[2])) => sel' = None]_vars

\* The selection was cleared during a move or resize session (its snapshot
\* is still there: pointer-up has not come), on a loaded image.
C3_ClearedDuringSession ==
    /\ pil_image # None
    /\ sel = None
    /\ drag_sel_snapshot # None

\* C9 (as amended): in a move session the width x1 - x0 and the height
\* y1 - y0 of the selection equal those of the rectangle the gesture started
\* from (the snapshot); after the pointer-up normalization their absolute
\* values do, and so do the signed values when the rectangle the gesture
\* started from was normalized.
C9_MovePreservesSize ==
    /\ [](drag_mode = "move" =>
             /\ Width(sel) = Width(drag_sel_snapshot)
             /\ Height(sel) = Height(drag_sel_snapshot))
    /\ [][(drag_mode = "move" /\ _on_mouse_up) =>
             /\ Abs(Width(sel')) = Abs(Width(drag_sel_snapshot))
             /\ Abs(Height(sel')) = Abs(Height(drag_sel_snapshot))
             /\ drag_sel_snapshot = _norm_sel(drag_sel_snapshot) =>
                   /\ Width(sel') = Width(drag_sel_snapshot)
                   /\ Height(sel') = Height(drag_sel_snapshot)]_vars

\* A move session whose rectangle has been moved away from where the gesture
\* started.
C9_MovedAway ==
    /\ drag_mode = "move"
    /\ sel # drag_sel_snapshot
    /\ sel[1] < 0

\* C9 as the claim states it: the signed width and height after pointer-up
\* equal those at the start of the gesture.
C9_SignedSizeAfterPointerUp ==
    [][(drag_mode = "move" /\ _on_mouse_up) =>
          /\ Width(sel') = Width(drag_sel_snapshot)
          /\ Height(sel') = Height(drag_sel_snapshot)]_vars

\* The edges a handle names: 1 for x0 (w), y0 (n), x1 (e), y1 (s).
HandleEdges ==
    [h \in HandleNames |->
        CASE h = "nw" -> <<1, 1, 0, 0>>
          [] h = "n"  -> <<0, 1, 0, 0>>
          [] h = "ne" -> <<0, 1, 1, 0>>
          [] h = "w"  -> <<1, 0, 0, 0>>
          [] h = "e"  -> <<0, 0, 1, 0>>
          [] h = "sw" -> <<1, 0, 0, 1>>
          [] h = "s"  -> <<0, 0, 0, 1>>
          [] h = "se" -> <<0, 0, 1, 1>>]

\* C10: in a resize session with handle h, a pointer-move by (dx, dy) from
\* the session origin makes the selection the snapshot with exactly the
\* edges h names displaced (w: x0 + dx, e: x1 + dx, n: y0 + dy, s: y1 + dy),
\* every other edge the snapshot's, and nothing is clamped, also when the
\* result is inverted.
C10_ResizeMovesNamedEdges ==
    [][\A p \in DragPoints :
          (drag_mode \in HandleNames /\ _on_mouse_drag(p[1], p[2])) =>
             LET dx == p[1] - drag_ox
                 dy == p[2] - drag_oy
                 e  == HandleEdges[drag_mode]
             IN sel' = <<drag_sel_snapshot[1] + e[1] * dx,
                         drag_sel_snapshot[2] + e[2] * dy,
                         drag_sel_snapshot[3] + e[3] * dx,
                         drag_sel_snapshot[4] + e[4] * dy>>
      ]_vars

\* A resize session whose rectangle is inverted.
C10_InvertedDuringResize ==
    /\ drag_mode \in HandleNames
    /\ sel # None
    /\ (sel[3] < sel[1] \/ sel[4] < sel[2])

(***************************************************************************)
(* Properties of the export.                                               *)
(***************************************************************************)
\* The file the n-th crop of source p is written to under the settings of a
\* fresh installation.
CropFile(p, n) ==
    <<JoinCropped(p[1]), p[2] \o <<"_cr", ToString(n)>>, OutputExt(p[3])>>

\* An export can be attempted and its rectangle does not collapse.
Exportable ==
    /\ pil_image # None
    /\ sel # None
    /\ ~TooSmall(CropBox(sel, scale, offset_x, offset_y, pil_image))

\* An export can be attempted and its rectangle collapses.
Collapsed ==
    /\ pil_image # None
    /\ sel # None
    /\ TooSmall(CropBox(sel, scale, offset_x, offset_y, pil_image))

\* C4: the counters start at 0; every successful export of a source takes
\* the number one above the source's counter and stores it, leaving the other
\* counters; an export that fails as too small leaves every counter.  So N
\* consecutive successful exports of a source carry the numbers 1..N.
C4_CropNumbersInOrder ==
    /\ \A p \in SourcePaths : crop_counter[p] = 0
    /\ [][\A cfg \in {DefaultConfig, OverwriteConfig} :
            /\ (Exportable /\ _save_crop(cfg, "ok")) =>
                  /\ crop_counter'[image_path] = crop_counter[image_path] + 1
                  /\ \A p \in SourcePaths \ {image_path} :
                        crop_counter'[p] = crop_counter[p]
                  /\ ~cfg.overwrite =>
                        /\ CropFile(image_path, crop_counter[image_path] + 1)
                               \notin out_files
                        /\ out_files' = out_files \cup
                               {CropFile(image_path, crop_counter[image_path] + 1)}
            /\ \A env \in SaveEnvs :
                  (Collapsed /\ _save_crop(cfg, env)) =>
                      crop_counter' = crop_counter
      ]_vars

\* Two crops of one source written as numbers 1 and 2, the second followed by
\* a selection too small to export.
C4_TwoCropsThenTooSmall ==
    /\ image_path = PathA
    /\ crop_counter[PathA] = 2
    /\ {CropFile(PathA, 1), CropFile(PathA, 2)} \subseteq out_files
    /\ Collapsed

\* C5: an export whose write fails leaves the counters and the selection as
\* they were.
C5_FailedWriteKeepsCounter ==
    [][\A cfg \in {DefaultConfig, OverwriteConfig} :
          (Exportable /\ _save_crop(cfg, "write_fails")) =>
              /\ crop_counter' = crop_counter
              /\ sel' = sel
      ]_vars

\* The second crop file of a source exists and the first does not: a failed
\* write took number 1.
C5_NumberLostToFailedWrite ==
    /\ crop_counter[PathA] = 2
    /\ CropFile(PathA, 2) \in out_files
    /\ CropFile(PathA, 1) \notin out_files

\* C6: an export that fails before the write (the rectangle collapses, or
\* the output folder cannot be created) writes no file and leaves the
\* counters, the selection and the drag session as they were.
C6_EarlyFailureChangesNothing ==
    [][\A cfg \in {DefaultConfig, OverwriteConfig}, env \in SaveEnvs :
          (/\ pil_image # None
           /\ sel # None
           /\ Collapsed \/ env = "mkdir_fails"
           /\ _save_crop(cfg, env)) =>
              UNCHANGED <<crop_counter, out_files, disk, sel, drag_mode,
                          drag_ox, drag_oy, drag_sel_snapshot>>
      ]_vars

\* A collapsed selection in an active drag session, on a source with one
\* crop written.
C6_CollapsedDuringSession ==
    /\ Collapsed
    /\ drag_mode # NoneStr
    /\ crop_counter[image_path] = 1
    /\ CropFile(image_path, 1) \in out_files

(***************************************************************************)
(* Properties of the crop rectangle.  An image coordinate is the fraction  *)
(* (c - offset) * den / num for scale num / den.                           *)
(***************************************************************************)
Floor(a, b) == a \div b
Ceil(a, b) == -((-a) \div b)
TowardZero(a, b) == IF a >= 0 THEN Floor(a, b) ELSE Ceil(a, b)

\* The numerators over scale[1] of the image-space corners of the selection:
\* <<min x, min y, max x, max y>>.
ImageCorners ==
    LET n == _norm_sel(sel)
    IN <<(n[1] - offset_x) * scale[2], (n[2] - offset_y) * scale[2],
         (n[3] - offset_x) * scale[2], (n[4] - offset_y) * scale[2]>>

\* The selection covers at least one pixel of the image in each axis.
OverlapsImage ==
    LET c == ImageCorners
    IN /\ Min2(c[3], pil_image[1] * scale[1]) - Max2(c[1], 0) >= scale[1]
       /\ Min2(c[4], pil_image[2] * scale[1]) - Max2(c[2], 0) >= scale[1]

InsideImage(box) ==
    /\ 0 <= box[1] /\ box[1] < box[3] /\ box[3] <= pil_image[1]
    /\ 0 <= box[2] /\ box[2] < box[4] /\ box[4] <= pil_image[2]

\* C7: every successful export takes a rectangle inside the image with
\* positive area (0 <= left < right <= width, 0 <= top < bottom <= height),
\* and a selection that covers at least one pixel of the image in each axis
\* is exported, clamped, not rejected.
C7_ExportInsideImage ==
    /\ []((pil_image # None /\ sel # None /\ OverlapsImage) =>
             SaveOutcome(DefaultConfig, "ok") = "Saved")
    /\ [][(/\ pil_image # None
           /\ sel # None
           /\ _save_crop(DefaultConfig, "ok")
           /\ crop_counter' # crop_counter) =>
              InsideImage(CropBox(sel, scale, offset_x, offset_y, pil_image))
      ]_vars

\* A crop written from a selection that reaches left of and above the canvas
\* and below and right of the image's last pixel.
C7_ExportedPartlyOutside ==
    /\ image_path = PathA
    /\ sel # None
    /\ Min2(sel[1], sel[3]) < 0
    /\ ImageCorners[4] > pil_image[2] * scale[1]
    /\ OverlapsImage
    /\ crop_counter[PathA] = 1
    /\ CropFile(PathA, 1) \in out_files

\* C8 (as amended): left = max(0, floor(min x)), top = max(0, floor(min y)),
\* right = min(width, trunc(max x)), bottom = min(height, trunc(max y)),
\* trunc rounding toward zero: a fractional right or bottom coordinate inside
\* the image is rounded down.
C8_CropBoxTruncates ==
    (pil_image # None /\ sel # None) =>
        LET c == ImageCorners
        IN CropBox(sel, scale, offset_x, offset_y, pil_image) =
              <<Max2(0, Floor(c[1], scale[1])),
                Max2(0, Floor(c[2], scale[1])),
                Min2(pil_image[1], TowardZero(c[3], scale[1])),
                Min2(pil_image[2], TowardZero(c[4], scale[1]))>>

\* A crop written from a selection whose right edge is a fractional image
\* coordinate inside the image.
C8_FractionalRightEdgeExported ==
    /\ Exportable
    /\ ImageCorners[3] > 0
    /\ ImageCorners[3] < pil_image[1] * scale[1]
    /\ ImageCorners[3] % scale[1] # 0
    /\ crop_counter[image_path] = 1
    /\ CropFile(image_path, 1) \in out_files

\* C8 as the claim states it: the far edges are rounded up.
C8_CropBoxRoundsUp ==
    (pil_image # None /\ sel # None) =>
        LET c == ImageCorners
        IN CropBox(sel, scale, offset_x, offset_y, pil_image) =
              <<Max2(0, Floor(c[1], scale[1])),
                Max2(0, Floor(c[2], scale[1])),
                Min2(pil_image[1], Ceil(c[3], scale[1])),
                Min2(pil_image[2], Ceil(c[4], scale[1]))>>

(***************************************************************************)
(* Properties of the overwrite export, of loading and of the canvas.       *)
(***************************************************************************)
\* The size of the rectangle an export takes in the current state.
CropSize ==
    LET c == ImageCorners
        left   == Max2(0, TowardZero(c[1], scale[1]))
        top    == Max2(0, TowardZero(c[2], scale[1]))
        right  == Min2(pil_image[1], TowardZero(c[3], scale[1]))
        bottom == Min2(pil_image[2], TowardZero(c[4], scale[1]))
    IN <<right - left, bottom - top>>

\* C11: a successful export under the overwrite setting writes the source
\* path and no other file, makes the in-memory image the one stored there,
\* and leaves the selection absent and no drag session active, whatever the
\* selection and the session were.
C11_OverwriteReloadsAndClears ==
    [][(Exportable /\ pil_image[3] /\ _save_crop(OverwriteConfig, "ok")) =>
          /\ disk' = [disk EXCEPT ![image_path] = CropSize]
          /\ out_files' = out_files
          /\ image_path' = image_path
          /\ pil_image' = <<disk'[image_path][1], disk'[image_path][2], TRUE>>
          /\ sel' = None
          /\ drag_mode' = NoneStr
      ]_vars

\* The source file has been overwritten from within a move or resize
\* session: the image in memory is the stored crop, the selection is gone,
\* the session's snapshot is still there.
C11_OverwrittenDuringSession ==
    /\ image_path = PathA
    /\ disk[PathA] # InitialDisk[PathA]
    /\ pil_image = <<disk[PathA][1], disk[PathA][2], TRUE>>
    /\ crop_counter[PathA] = 1
    /\ sel = None
    /\ drag_mode = NoneStr
    /\ drag_sel_snapshot # None

\* The path a navigation by step leads to.
NavTarget(step) ==
    folder_images[((folder_index + step) % Len(folder_images)) + 1]

\* This step is a load of a sound image: by open, next or previous.
SuccessfulLoad ==
    \/ \E path \in GoodPaths : _open_file(path)
    \/ \E step \in {1, -1} :
          /\ folder_images # <<>>
          /\ NavTarget(step) \in GoodPaths
          /\ Navigate(step)

\* C14: after every successful image load (open, next, previous, the same
\* path again) the selection is absent and no drag session is active.
C14_LoadClearsSelection ==
    [][SuccessfulLoad => (sel' = None /\ drag_mode' = NoneStr)]_vars

\* An image has been loaded over a move or resize session: the snapshot is
\* still there, the selection and the session are gone, nothing has been
\* exported.
C14_LoadedDuringSession ==
    /\ image_path = PathA
    /\ pil_image = <<InitialDisk[PathA][1], InitialDisk[PathA][2], TRUE>>
    /\ crop_counter[PathA] = 0
    /\ sel = None
    /\ drag_mode = NoneStr
    /\ drag_sel_snapshot # None
    /\ drag_ox = 27

\* C16: a canvas resize recomputes the viewport transform only: the
\* selection, the drag session (mode, origin, snapshot) and the crop
\* counters are unchanged, also in the middle of a drag.
C16_ResizeKeepsSelection ==
    [][\A cv \in CanvasSizes :
          _on_canvas_resize(cv) =>
              /\ UNCHANGED <<sel, drag_mode, drag_ox, drag_oy,
                             drag_sel_snapshot, crop_counter>>
              /\ UNCHANGED <<image_path, pil_image, folder_images,
                             folder_index, disk, out_files>>
      ]_vars

\* The canvas has been resized with a resize session open on an inverted
\* rectangle, and the transform is the one of the new size.
C16_ResizedDuringDrag ==
    /\ canvas = <<40, 32>>
    /\ pil_image # None
    /\ scale[1] * pil_image[1] = 40 * scale[2]
    /\ drag_mode \in HandleNames
    /\ sel # None
    /\ sel[3] < sel[1]

\* The settings with the overwrite-original policy on.
OverwriteConfigs == {c \in Configs : c.overwrite}

\* Folders other than those of the images; any of them may be impossible to
\* create.
OutputFolders == {JoinCropped("/d"), JoinCropped("/e"), CustomFolder}

\* What the file system does for an export under settings cfg when the
\* folders in blocked cannot be created.
EnvOf(cfg, blocked) ==
    IF _resolve_out_folder(cfg, image_path[1]) \in blocked
    THEN "mkdir_fails" ELSE "ok"

\* C12: with overwrite on, an export ends the same whatever the folder
\* policy and the naming pattern are: a step that is an export under one
\* overwrite setting is also the export under every other overwrite setting,
\* on the same document and the same file system, including a file system on
\* which some output folder cannot be created.
C12_OverwriteIgnoresFolderAndPattern ==
    [][(Exportable /\ pil_image[3]) =>
          \A cfg1 \in OverwriteConfigs, cfg2 \in OverwriteConfigs,
             blocked \in SUBSET OutputFolders :
                _save_crop(cfg1, EnvOf(cfg1, blocked)) =>
                _save_crop(cfg2, EnvOf(cfg2, blocked))
      ]_vars

\* The paths whose load fails: no such file, an unsupported extension, or a
\* file that cannot be decoded.
FailingPaths ==
    MissingPaths \cup GarbagePaths \cup TruncatedPaths
        \cup {p \in OpenPaths : p[3] \notin SUPPORTED_EXTS}

\* This step is a load that fails: by open, next or previous.
FailedLoad ==
    \/ \E path \in FailingPaths : _open_file(path)
    \/ \E step \in {1, -1} :
          /\ folder_images # <<>>
          /\ NavTarget(step) \in FailingPaths
          /\ Navigate(step)

\* C13: a load that fails, requested by open or by navigation, leaves the
\* active image and its path, the folder listing and position, the
\* selection, the drag session, the transform and the counters as they were.
C13_FailedLoadChangesNothing ==
    [][FailedLoad =>
          /\ UNCHANGED <<image_path, pil_image, folder_images, folder_index>>
          /\ UNCHANGED <<sel, drag_mode, drag_ox, drag_oy, drag_sel_snapshot>>
          /\ UNCHANGED <<scale, offset_x, offset_y, crop_counter>>
      ]_vars

\* No export of source p has succeeded: none of its crop files exists and
\* the source file has not been overwritten.
NotYetExported(p) ==
    /\ \A n \in 1..ExportMaxCount : CropFile(p, n) \notin out_files
    /\ disk[p] = InitialDisk[p]

\* No step lowers the counter of a source.
CountersNeverDecrease ==
    [][\A p \in SourcePaths : crop_counter'[p] >= crop_counter[p]]_vars

\* An export leaves the counters of the sources other than the active one.
ExportCountsActiveSourceOnly ==
    [][\A cfg \in {DefaultConfig, OverwriteConfig}, env \in SaveEnvs :
          (image_path # None /\ _save_crop(cfg, env)) =>
              \A p \in SourcePaths \ {image_path} :
                  crop_counter'[p] = crop_counter[p]
      ]_vars

\* C15: the counter of each source never decreases under any operation, an
\* export changes the counter of the active source only, and a source not
\* yet exported has counter 0.
C15_CounterPerSource ==
    /\ [](\A p \in SourcePaths : NotYetExported(p) => crop_counter[p] = 0)
    /\ CountersNeverDecrease
    /\ ExportCountsActiveSourceOnly

(***************************************************************************)
(* Properties of the view.                                                 *)
(***************************************************************************)
\* A sound image is shown.
ImageShown == pil_image # None /\ pil_image[3]

\* C17: whenever a sound image is shown, after a load and after a canvas
\* resize, the scale is the largest factor for which the scaled image fits
\* inside the canvas, min(canvasW / imageW, canvasH / imageH): the image
\* fits in both dimensions and fills one of them, whether that factor is
\* below or above 1.
C17_ScaleIsExactFit ==
    ImageShown =>
        /\ scale[1] > 0 /\ scale[2] > 0
        /\ scale[1] * pil_image[1] <= canvas[1] * scale[2]
        /\ scale[1] * pil_image[2] <= canvas[2] * scale[2]
        /\ \/ scale[1] * pil_image[1] = canvas[1] * scale[2]
           \/ scale[1] * pil_image[2] = canvas[2] * scale[2]

\* An image smaller than the canvas in both dimensions is shown enlarged on
\* the wider canvas.
C17_SmallImageEnlarged ==
    /\ ImageShown
    /\ canvas = <<40, 32>>
    /\ pil_image[1] < canvas[1] /\ pil_image[2] < canvas[2]
    /\ scale[1] > scale[2]

\* The scale never exceeds 1.
C17_ScaleAtMostOne ==
    ImageShown => scale[1] <= scale[2]

(***************************************************************************)
(* Properties of the naming.                                               *)
(***************************************************************************)
\* The settings whose pattern cannot be formatted.
UnformattableConfigs ==
    {c \in NamingConfigs : FormatPattern(c.pattern, <<"x">>, 1) = None}

\* The file <base>_cr<n><ext> in the output folder of settings cfg, for the
\* active source and the crop number n.
FallbackFile(cfg, n) ==
    <<_resolve_out_folder(cfg, image_path[1]),
      image_path[2] \o <<"_cr", ToString(n)>>,
      OutputExt(image_path[3])>>

\* C18: an export under a pattern that cannot be formatted succeeds: it
\* writes <base>_cr<n> with n the number just assigned, one above the
\* source's counter, stores that number, and is in every respect the export
\* under the pattern {base}_cr{n}.
C18_UnformattablePatternFallsBack ==
    [][\A cfg \in UnformattableConfigs :
          (Exportable /\ pil_image[3] /\ _save_crop(cfg, "ok")) =>
              /\ out_files' = out_files \cup
                     {FallbackFile(cfg, crop_counter[image_path] + 1)}
              /\ crop_counter' = [crop_counter EXCEPT
                                     ![image_path] = crop_counter[image_path] + 1]
              /\ _save_crop([cfg EXCEPT !.pattern = "{base}_cr{n}"], "ok")
      ]_vars

\* The first crop of a source has been written to the custom folder under
\* the fallback name, and to no other place.
C18_FallbackNameInCustomFolder ==
    /\ image_path = PathA
    /\ crop_counter[PathA] = 1
    /\ out_files = {<<CustomFolder, <<"a", "_cr", "1">>, ".jpg">>}
    /\ disk = InitialDisk

(***************************************************************************)
(* Properties of the hit test.                                             *)
(***************************************************************************)
\* Twice the coordinates of the handle named h on rectangle s: the corners
\* and edge midpoints of the normalized rectangle.
HandlePoint2(h, s) ==
    LET lx == Min2(s[1], s[3])  rx == Max2(s[1], s[3])
        ty == Min2(s[2], s[4])  by == Max2(s[2], s[4])
    IN <<IF HasW(h) THEN 2 * lx ELSE IF HasE(h) THEN 2 * rx ELSE lx + rx,
         IF HasN(h) THEN 2 * ty ELSE IF HasS(h) THEN 2 * by ELSE ty + by>>

\* The point of handle h on s is within the hit radius of p in both axes.
Within(h, s, p) ==
    /\ Abs(2 * p[1] - HandlePoint2(h, s)[1]) <= 2 * HIT_RADIUS
    /\ Abs(2 * p[2] - HandlePoint2(h, s)[2]) <= 2 * HIT_RADIUS

Corners == {"nw", "ne", "sw", "se"}

\* The position of handle h in the order nw, n, ne, w, e, sw, s, se.
OrderOf(h) == CHOOSE i \in 1..Len(HandleOrder) : HandleOrder[i] = h

\* The hit test answers with a handle exactly when some handle point is
\* within the radius, with one that is within the radius, and with none
\* when the selection is absent.
HitExactlyWhenWithin ==
    \A p \in DragPoints :
        LET r == _hit_handle(sel, p[1], p[2])
        IN /\ sel = None => r = NoneStr
           /\ sel # None =>
                 /\ r # NoneStr <=> \E h \in HandleNames : Within(h, sel, p)
                 /\ r # NoneStr => r \in HandleNames /\ Within(r, sel, p)

\* C19: the hit test returns a handle exactly when some handle point is
\* within the hit radius of the pointer in both axes and none when the
\* selection is absent; when several handles qualify it returns the first of
\* them in the fixed order nw, n, ne, w, e, sw, s, se (so an edge handle that
\* comes before a qualifying corner wins); a pointer-down on a handle opens
\* the resize session of that handle.
C19_HitTestFirstInOrder ==
    /\ [](/\ HitExactlyWhenWithin
          /\ \A p \in DragPoints :
                sel # None =>
                   \A h \in HandleNames :
                      (/\ Within(h, sel, p)
                       /\ \A g \in HandleNames :
                             Within(g, sel, p) => OrderOf(h) <= OrderOf(g))
                      => _hit_handle(sel, p[1], p[2]) = h)
    /\ [][\A p \in DragPoints, h \in HandleNames :
             (/\ sel # None
              /\ _hit_handle(sel, p[1], p[2]) = h
              /\ _on_mouse_down(p[1], p[2])) => drag_mode' = h
         ]_vars

\* A resize session on the east edge opened by a pointer-down that was also
\* within the radius of the south-east corner.
C19_EdgeTakenAtCorner ==
    /\ drag_mode = "e"
    /\ drag_sel_snapshot # None
    /\ Within("se", drag_sel_snapshot, <<drag_ox, drag_oy>>)
    /\ Within("e", drag_sel_snapshot, <<drag_ox, drag_oy>>)

\* The hit test prefers a corner handle whenever one qualifies.
C19_HitTestPrefersCorners ==
    /\ HitExactlyWhenWithin
    /\ \A p \in DragPoints :
          (sel # None /\ \E h \in Corners : Within(h, sel, p))
              => _hit_handle(sel, p[1], p[2]) \in Corners

(***************************************************************************)
(* Properties of the session as a whole.                                   *)
(***************************************************************************)
\* Coordinate i of a rectangle follows the pointer in a session of this
\* mode: all four in a move, the named edges in a resize.
Follows(mode, i) ==
    \/ mode = "move"
    \/ i = 1 /\ HasW(mode)
    \/ i = 2 /\ HasN(mode)
    \/ i = 3 /\ HasE(mode)
    \/ i = 4 /\ HasS(mode)

\* The rectangle of a move or resize session with snapshot snap and origin
\* (ox, oy) when the pointer is at p.
SessionSel(mode, snap, ox, oy, p) ==
    <<snap[1] + (IF Follows(mode, 1) THEN p[1] - ox ELSE 0),
      snap[2] + (IF Follows(mode, 2) THEN p[2] - oy ELSE 0),
      snap[3] + (IF Follows(mode, 3) THEN p[1] - ox ELSE 0),
      snap[4] + (IF Follows(mode, 4) THEN p[2] - oy ELSE 0)>>

\* C20: in a move or resize session every pointer-move sets the selection to
\* a function of the snapshot, the session origin and the pointer position,
\* whatever the selection was before the move, and leaves the snapshot and
\* the origin; a pointer-move to the origin sets it to the snapshot.
C20_SessionDependsOnSnapshotOnly ==
    [][\A p \in DragPoints :
          (/\ drag_mode \in HandleNames \cup {"move"}
           /\ _on_mouse_drag(p[1], p[2])) =>
              /\ sel' = SessionSel(drag_mode, drag_sel_snapshot,
                                   drag_ox, drag_oy, p)
              /\ (p = <<drag_ox, drag_oy>> => sel' = drag_sel_snapshot)
              /\ UNCHANGED <<drag_mode, drag_ox, drag_oy, drag_sel_snapshot>>
      ]_vars

\* A move session whose rectangle has left the snapshot in both axes and has
\* the snapshot's size.
C20_MovedWithinSession ==
    /\ drag_mode = "move"
    /\ sel # None
    /\ drag_sel_snapshot # None
    /\ sel[1] # drag_sel_snapshot[1]
    /\ sel[2] # drag_sel_snapshot[2]
    /\ sel[3] - sel[1] = drag_sel_snapshot[3] - drag_sel_snapshot[1]

(***************************************************************************)
(* Properties of the output path.                                          *)
(***************************************************************************)
\* The settings that write a new file under a pattern that formats.
FormattableConfigs ==
    {c \in NamingConfigs : FormatPattern(c.pattern, <<"x">>, 1) # None}

\* The path an export of the active source under settings cfg resolves to.
OutPath(cfg) ==
    <<_resolve_out_folder(cfg, image_path[1]),
      OutStem(cfg.pattern, image_path[2], crop_counter[image_path] + 1),
      OutputExt(image_path[3])>>

\* C21: with overwrite off, under every folder policy and every pattern
\* that formats, a successful export writes a path that is neither the
\* source's own path nor the path of an earlier export, and leaves the
\* source file as it was.
C21_ExportSparesSourceAndEarlierCrops ==
    [][\A cfg \in FormattableConfigs :
          (Exportable /\ pil_image[3] /\ _save_crop(cfg, "ok")) =>
              /\ OutPath(cfg) # image_path
              /\ OutPath(cfg) \notin out_files
              /\ out_files' = out_files \cup {OutPath(cfg)}
              /\ disk' = disk
      ]_vars

\* The source file has been replaced by its crop although overwrite is off:
\* the one export of the source was written to the source's own path.
C21_SourceReplacedByCrop ==
    /\ image_path = PathA
    /\ crop_counter[PathA] = 1
    /\ PathA \in out_files
    /\ disk[PathA] # InitialDisk[PathA]
    /\ pil_image = Opened(InitialDisk[PathA])

(***************************************************************************)
(* Properties of the folder position.                                      *)
(***************************************************************************)
\* C22: whenever an image is loaded, the folder position is within the
\* folder listing and the path listed there is the active image's path.
C22_FolderPositionDesignatesImage ==
    image_path # None =>
        /\ folder_index \in 0..(Len(folder_images) - 1)
        /\ folder_images[folder_index + 1] = image_path

\* After a navigation step whose load failed, the folder position is on the
\* file that could not be loaded while the image before it is still active.
C22_PositionOnFailedFile ==
    /\ image_path = PathA
    /\ folder_images = <<PathA, PathC>>
    /\ folder_index = 1

====
